---- MODULE Spec2Model ----
(***************************************************************************)
(* influxdb-router: the ingestion and admission pipeline.                  *)
(*                                                                         *)
(*   src/main.go           main, handleSignals                             *)
(*   src/listener/main.go  HTTPListener, logHTTPRequest, ingest, health    *)
(*                                                                         *)
(* Go channels are modelled as sequences with a capacity: a send is        *)
(* enabled while Len < cap, a receive while Len > 0; a select with a       *)
(* default branch takes the default when its channel operation is not      *)
(* enabled.  Every goroutine is a program counter; one action is one       *)
(* stretch of code between two operations on shared state.                 *)
(***************************************************************************)
EXTENDS Integers, Sequences, FiniteSets, TLC

(***************************************************************************)
(* Bounds of the model.                                                    *)
(***************************************************************************)
\* request slots available to /health probes
NumProbe == 3
\* request slots available to /write requests
NumWrite == 2
\* requests of each kind where both kinds of traffic are mixed
NumMixed == 1
\* largest options.incomingQueuecap (src/main.go:81, default 500000) tried
MaxQueueCap == 2

(***************************************************************************)
(* Program constants.                                                      *)
(***************************************************************************)
\* ready := make(chan bool, 1)
ReadyCap == 1
\* healthCheck := make(chan bool, 1)
HealthCheckCap == 1
StatusOK == 200
StatusNoContent == 204
StatusBadRequest == 400
StatusUnauthorized == 401
StatusServiceUnavailable == 503
\* no WriteHeader call was made by the handler
NoStatus == 0
\* config.Mask(apiKey, 4): the length of the prefix that stays readable
MaskLen == 4
\* req.Context().Value(messageContextKey) == nil
NoToken == -1
\* messageID = "", the identifier of a request without a token
EmptyID == 0

(***************************************************************************)
(* Request inputs.                                                         *)
(***************************************************************************)
\* the Tenant Key Registry: httpConfig.APIConfig, read-only after startup
\* header values are sequences of characters; <<>> is the absent header
APIConfig == {<<"k", "e", "y", "-", "1">>}
Keys == APIConfig \cup {<<"b", "a", "d", "-", "k", "e", "y">>}
Encodings == {"gzip", "identity", ""}
Bodies == {"b1", "b2"}
Methods == {"POST"}
\* the header the middleware reads (line 83) and the default of the flag
\* -api-key-header-name (main.go:88)
ServiceAPIKey == "Service-API-Key"
\* the names -api-key-header-name is started with, and so the headers of a
\* request that carry a key
HeaderNames == {ServiceAPIKey, "X-Api-Key"}
\* req.Header with the one header name set to value; <<>> is what
\* req.Header.Get gives for a header that is absent
Header(name, value) == [n \in HeaderNames |-> IF n = name THEN value ELSE <<>>]
\* req.Method of the requests sent to probe the route table
AnyMethods == {"POST", "GET"}

Max(a, b) == IF a >= b THEN a ELSE b

Slots == 1..Max(Max(NumProbe, NumWrite), 2 * NumMixed)

VARIABLES
    mainPc,         \* position of main / handleSignals
    writerPc,       \* position of writer.OutQueueWriter
    listenerPc,     \* position of listener.HTTPListener and its serve goroutine
    exit,           \* "none" while the process runs, else how it ended
    registered,     \* signal.Notify(sigChan, SIGINT, SIGTERM) has been called
    sigLost,        \* a signal was sent to sigChan while nobody was receiving
    queueCap,       \* options.incomingQueuecap
    queueGauge,     \* the queue length stats.ExportMetrics sampled last
    bound,          \* the endpoint that is listening: "none", "http", "https"
    listenerConfig, \* the config HTTPListener ran with and the ClientCAs it built
    ready,          \* chan bool, cap 1
    healthCheck,    \* chan bool, cap 1
    incomingQueue,  \* chan *backends.Payload, cap queueCap
    req,            \* the requests: inputs, handler position, response
    enqLog,         \* history: Payloads in the order their sends succeeded
    deqLog          \* history: Payloads in the order the consumer received them

vars == <<mainPc, writerPc, listenerPc, exit, registered, sigLost, queueCap, queueGauge, bound, listenerConfig,
          ready, healthCheck, incomingQueue, req, enqLog, deqLog>>

procVars == <<mainPc, writerPc, listenerPc, exit, registered, sigLost, queueCap, queueGauge, bound, listenerConfig, ready>>

(***************************************************************************)
(* Data.                                                                   *)
(***************************************************************************)
\* backends.Payload{MessageID, Body, APIKey}
Payload(messageID, body, apiKey) ==
    [MessageID |-> messageID, Body |-> body, APIKey |-> apiKey]

\* a request slot no request has used yet
IdleReq ==
    [pc |-> "idle", path |-> "", method |-> "", hdr |-> Header(ServiceAPIKey, <<>>),
     enc |-> "",
     read |-> "", body |-> "", mid |-> 0, ctx |-> NoToken, log |-> <<>>,
     status |-> NoStatus, steps |-> {},
     afterFlip |-> FALSE, after503 |-> FALSE]

\* config.Mask(s, n): the first n characters stay, the others are redacted
Mask(s, n) ==
    IF Len(s) <= n
    THEN s
    ELSE SubSeq(s, 1, n) \o [i \in 1..(Len(s) - n) |-> "*"]

\* one line written to the log while a request is handled; key is the text
\* printed for the api key, <<>> on lines that print none
LogLine(line, mid, key) == [line |-> line, mid |-> mid, key |-> key]

\* MessageIDOf when ingest does not look at the request context
MessageIDOf_Ignored(token) == EmptyID

\* lines 188-193: the message id ingest takes from the request context
MessageIDOf(token) == IF token # NoToken THEN token ELSE EmptyID

Alive == exit = "none"

\* handleSignals has executed h <- true
Flipped == mainPc \in {"grace", "shutdown", "exited"}

\* some /health probe has written 503
Some503 == \E s \in Slots : req[s].status = StatusServiceUnavailable

Arrived(path) == {s \in Slots : req[s].path = path}

\* xid.New(): a fresh identifier for every call
\* HTTPListener has not run
NoConfig ==
    [Secure |-> FALSE, SSLCAServerCert |-> FALSE,
     APIKeyHeaderName |-> ServiceAPIKey, ClientCAs |-> "unset"]

\* what ioutil.ReadFile and AppendCertsFromPEM make of the file
\* SSLCAServerCert names: unreadable, readable without a certificate in it,
\* or a bundle of certificates
CAFiles == {"unreadable", "noCertificate", "bundle"}

\* line 159: apiKey := req.Header.Get(httpConfig.APIKeyHeaderName), the key
\* ingest validates and puts into the Payload
APIKeyOf(r) == req[r].hdr[listenerConfig.APIKeyHeaderName]

xidNew == Cardinality({s \in Slots : req[s].pc # "idle"}) + 1

Init ==
    /\ mainPc = "start"
    /\ writerPc = "none"
    /\ listenerPc = "none"
    /\ exit = "none"
    /\ registered = FALSE
    /\ sigLost = FALSE
    /\ queueCap \in 1..MaxQueueCap
    /\ queueGauge = 0
    /\ bound = "none"
    /\ listenerConfig = NoConfig
    /\ ready = <<>>
    /\ healthCheck = <<>>
    /\ incomingQueue = <<>>
    /\ req = [s \in Slots |-> IdleReq]
    /\ enqLog = <<>>
    /\ deqLog = <<>>

(***************************************************************************)
(* main (src/main.go).                                                     *)
(***************************************************************************)
\* lines 131-152: make the channels, load the configuration (fatal on
\* error), go writer.OutQueueWriter(apiConf, incomingQueue, ready)
MainStart ==
    /\ Alive /\ mainPc = "start"
    /\ \E confOk \in BOOLEAN :
         IF confOk
         THEN /\ mainPc' = "waitReady"
              /\ writerPc' = "setup"
              /\ exit' = exit
         ELSE /\ exit' = "fatal"
              /\ UNCHANGED <<mainPc, writerPc>>
    /\ UNCHANGED <<listenerPc, registered, sigLost, queueCap, queueGauge, bound, listenerConfig, ready,
                   healthCheck, incomingQueue, req, enqLog, deqLog>>

\* MainWaitReady going on without the notification
MainWaitReady_NoWait ==
    /\ Alive /\ mainPc = "waitReady"
    /\ ready' = (IF Len(ready) > 0 THEN Tail(ready) ELSE ready)
    /\ mainPc' = "startListener"
    /\ UNCHANGED <<writerPc, listenerPc, exit, registered, sigLost, queueCap, queueGauge, bound, listenerConfig,
                   healthCheck, incomingQueue, req, enqLog, deqLog>>

\* line 167: <-ready
MainWaitReady ==
    /\ Alive /\ mainPc = "waitReady"
    /\ Len(ready) > 0
    /\ ready' = Tail(ready)
    /\ mainPc' = "startListener"
    /\ UNCHANGED <<writerPc, listenerPc, exit, registered, sigLost, queueCap, queueGauge, bound, listenerConfig,
                   healthCheck, incomingQueue, req, enqLog, deqLog>>

\* lines 170-194: go listener.HTTPListener(...), then call handleSignals
MainStartListener ==
    /\ Alive /\ mainPc = "startListener"
    /\ listenerPc' = "setup"
    /\ mainPc' = "notify"
    /\ UNCHANGED <<writerPc, exit, registered, sigLost, queueCap, queueGauge, bound, listenerConfig, ready,
                   healthCheck, incomingQueue, req, enqLog, deqLog>>

(***************************************************************************)
(* handleSignals (src/main.go:99-109).                                     *)
(***************************************************************************)
\* line 100: signal.Notify(sigChan, SIGINT, SIGTERM)
HSNotify ==
    /\ Alive /\ mainPc = "notify"
    /\ registered' = TRUE
    /\ mainPc' = "recv"
    /\ UNCHANGED <<writerPc, listenerPc, exit, sigLost, queueCap, queueGauge, bound, listenerConfig, ready,
                   healthCheck, incomingQueue, req, enqLog, deqLog>>

\* line 101: <-sigChan, the goroutine parks as receiver on the unbuffered channel
HSPark ==
    /\ Alive /\ mainPc = "recv"
    /\ mainPc' = "parked"
    /\ UNCHANGED <<writerPc, listenerPc, exit, registered, sigLost, queueCap, queueGauge, bound, listenerConfig,
                   ready, healthCheck, incomingQueue, req, enqLog, deqLog>>

\* line 103: h <- true, a blocking send on the cap-1 channel
HSFlip ==
    /\ Alive /\ mainPc = "flip"
    /\ Len(healthCheck) < HealthCheckCap
    /\ healthCheck' = Append(healthCheck, TRUE)
    /\ mainPc' = "grace"
    /\ UNCHANGED <<writerPc, listenerPc, exit, registered, sigLost, queueCap, queueGauge, bound, listenerConfig,
                   ready, incomingQueue, req, enqLog, deqLog>>

\* lines 104-106: the timer of options.waitBeforeShutdown seconds fires
HSGrace ==
    /\ Alive /\ mainPc = "grace"
    /\ mainPc' = "shutdown"
    /\ UNCHANGED <<writerPc, listenerPc, exit, registered, sigLost, queueCap, queueGauge, bound, listenerConfig,
                   ready, healthCheck, incomingQueue, req, enqLog, deqLog>>

\* HSExit not waiting for the timer
HSExit_NoWait ==
    /\ Alive /\ mainPc \in {"grace", "shutdown"}
    /\ mainPc' = "exited"
    /\ exit' = "signal"
    /\ UNCHANGED <<writerPc, listenerPc, registered, sigLost, queueCap, queueGauge, bound, listenerConfig,
                   ready, healthCheck, incomingQueue, req, enqLog, deqLog>>

\* lines 107-108: os.Exit(0)
HSExit ==
    /\ Alive /\ mainPc = "shutdown"
    /\ mainPc' = "exited"
    /\ exit' = "signal"
    /\ UNCHANGED <<writerPc, listenerPc, registered, sigLost, queueCap, queueGauge, bound, listenerConfig,
                   ready, healthCheck, incomingQueue, req, enqLog, deqLog>>

(***************************************************************************)
(* The operating system delivers SIGINT or SIGTERM (os/signal semantics).  *)
(***************************************************************************)
\* before signal.Notify the default disposition ends the process
SignalDefault ==
    /\ Alive /\ ~registered
    /\ exit' = "killed"
    /\ UNCHANGED <<mainPc, writerPc, listenerPc, registered, sigLost, queueCap, queueGauge, bound, listenerConfig,
                   ready, healthCheck, incomingQueue, req, enqLog, deqLog>>

\* sigChan = make(chan os.Signal) is unbuffered (line 66): the runtime's
\* non-blocking send succeeds only while handleSignals is parked on it
SignalDeliver ==
    /\ Alive /\ registered /\ mainPc = "parked"
    /\ mainPc' = "flip"
    /\ UNCHANGED <<writerPc, listenerPc, exit, registered, sigLost, queueCap, queueGauge, bound, listenerConfig,
                   ready, healthCheck, incomingQueue, req, enqLog, deqLog>>

\* otherwise the signal is dropped
SignalDrop ==
    /\ Alive /\ registered /\ mainPc # "parked"
    /\ ~sigLost
    /\ sigLost' = TRUE
    /\ UNCHANGED <<mainPc, writerPc, listenerPc, exit, registered, queueCap, queueGauge, bound, listenerConfig,
                   ready, healthCheck, incomingQueue, req, enqLog, deqLog>>

(***************************************************************************)
(* writer.OutQueueWriter: the forwarding stage, the queue's one consumer.  *)
(***************************************************************************)
\* emits its single readiness notification
WriterReady ==
    /\ Alive /\ writerPc = "setup"
    /\ Len(ready) < ReadyCap
    /\ ready' = Append(ready, TRUE)
    /\ writerPc' = "consuming"
    /\ UNCHANGED <<mainPc, listenerPc, exit, registered, sigLost, queueCap, queueGauge, bound, listenerConfig,
                   healthCheck, incomingQueue, req, enqLog, deqLog>>

\* WriterDequeue of a consumer that takes the Payload sent last
WriterDequeue_TakesNewest ==
    /\ Alive /\ writerPc = "consuming"
    /\ Len(incomingQueue) > 0
    /\ deqLog' = Append(deqLog, incomingQueue[Len(incomingQueue)])
    /\ incomingQueue' = SubSeq(incomingQueue, 1, Len(incomingQueue) - 1)
    /\ UNCHANGED <<mainPc, writerPc, listenerPc, exit, registered, sigLost, queueCap, queueGauge,
                   bound, listenerConfig, ready, healthCheck, req, enqLog>>

\* receives the Payload at the head of incomingQueue
WriterDequeue ==
    /\ Alive /\ writerPc = "consuming"
    /\ Len(incomingQueue) > 0
    /\ deqLog' = Append(deqLog, Head(incomingQueue))
    /\ incomingQueue' = Tail(incomingQueue)
    /\ UNCHANGED <<mainPc, writerPc, listenerPc, exit, registered, sigLost, queueCap, queueGauge,
                   bound, listenerConfig, ready, healthCheck, req, enqLog>>

(***************************************************************************)
(* stats.ExportMetrics: the metrics exporter, started at main.go:164 with  *)
(* the queue and its capacity.  The queue is drained by the forwarding     *)
(* stage alone; the exporter looks at how full it is.                      *)
(***************************************************************************)
ExportMetrics ==
    /\ Alive /\ mainPc # "start"
    /\ queueGauge # Len(incomingQueue)
    /\ queueGauge' = Len(incomingQueue)
    /\ UNCHANGED <<mainPc, writerPc, listenerPc, exit, registered, sigLost, queueCap,
                   bound, listenerConfig, ready, healthCheck, incomingQueue, req,
                   enqLog, deqLog>>

(***************************************************************************)
(* HTTPListener (src/listener/main.go:105-151).                            *)
(***************************************************************************)
\* lines 106-132 with config the HTTPListenerConfig main passes: build the
\* mux; in TLS mode read the CA bundle when one is configured (log.Fatal when
\* ReadFile fails; the result of AppendCertsFromPEM is not looked at); then
\* start the serving goroutine of the one mode
HTTPListener(config) ==
    /\ Alive /\ listenerPc = "setup"
    /\ \E caFile \in CAFiles :
         IF config.Secure /\ config.SSLCAServerCert /\ caFile = "unreadable"
         THEN /\ exit' = "fatal"
              /\ UNCHANGED <<listenerPc, listenerConfig>>
         ELSE /\ listenerPc' = (IF config.Secure THEN "bindTLS" ELSE "bindPlain")
              /\ listenerConfig' =
                    [Secure |-> config.Secure,
                     SSLCAServerCert |-> config.SSLCAServerCert,
                     APIKeyHeaderName |-> config.APIKeyHeaderName,
                     ClientCAs |->
                        IF ~(config.Secure /\ config.SSLCAServerCert)
                        THEN "unset"
                        ELSE IF caFile = "bundle" THEN "loaded" ELSE "empty"]
              /\ exit' = exit
    /\ UNCHANGED <<mainPc, writerPc, registered, sigLost, queueCap, queueGauge, bound, ready,
                   healthCheck, incomingQueue, req, enqLog, deqLog>>

\* lines 133-149: srv.ListenAndServeTLS(cert, key) on Addr:HTTPSPort in TLS
\* mode, http.ListenAndServe on Addr:HTTPPort otherwise; log.Fatal on error
ListenAndServe ==
    /\ Alive /\ listenerPc \in {"bindTLS", "bindPlain"}
    /\ \E ok \in BOOLEAN :
         IF ok
         THEN /\ bound' = (IF listenerPc = "bindTLS" THEN "https" ELSE "http")
              /\ listenerPc' = "serving"
              /\ exit' = exit
         ELSE /\ exit' = "fatal"
              /\ UNCHANGED <<bound, listenerPc>>
    /\ UNCHANGED <<mainPc, writerPc, registered, sigLost, queueCap, queueGauge, listenerConfig,
                   ready, healthCheck, incomingQueue, req, enqLog, deqLog>>

(***************************************************************************)
(* Request handling (src/listener/main.go).                                *)
(***************************************************************************)
Done(r, status) == [req EXCEPT ![r].pc = "done", ![r].status = status]

\* lines 74-100 and the routes of lines 67-72: the handler chain runs once
\* the request's headers are in; the middleware mints the message id, puts
\* it into the request context and calls the handler the mux has for the
\* path.  The key on its log line is that of the header Service-API-Key
\* (line 83), whatever header name the listener is configured with.  Slots are numbered in order of arrival.
logHTTPRequest(r, path, method, header, enc) ==
    /\ Alive /\ listenerPc = "serving"
    /\ req[r].pc = "idle"
    /\ \A s \in Slots : s < r => req[s].pc # "idle"
    /\ req' = [req EXCEPT ![r] =
                 [pc |-> IF path = "/write" THEN "ingest" ELSE "health",
                  path |-> path, method |-> method, hdr |-> header,
                  enc |-> enc, read |-> "", body |-> "", mid |-> xidNew,
                  ctx |-> xidNew,
                  log |-> <<LogLine("Received", xidNew,
                                    Mask(header[ServiceAPIKey], MaskLen))>>,
                  status |-> NoStatus, steps |-> {},
                  afterFlip |-> Flipped, after503 |-> Some503]]
    /\ UNCHANGED <<procVars, healthCheck, incomingQueue, enqLog, deqLog>>

\* a request to /write arrives, one of at most limit
ServeWrite(limit) ==
    \E r \in Slots, m \in Methods, k \in Keys, e \in Encodings :
        /\ Cardinality(Arrived("/write")) < limit
        /\ logHTTPRequest(r, "/write", m, Header(ServiceAPIKey, k), e)

\* a request to /write arrives with any of the key headers set or absent
ServeWriteHeaders(limit) ==
    \E r \in Slots, m \in Methods, e \in {"gzip"},
       header \in [HeaderNames -> Keys \cup {<<>>}] :
        /\ Cardinality(Arrived("/write")) < limit
        /\ logHTTPRequest(r, "/write", m, header, e)

\* lines 155-157: ingest is entered with a request whose context holds no
\* message id, the handler called without the middleware in front of it
IngestNoContext(limit) ==
    \E r \in Slots, k \in APIConfig, e \in {"gzip"} :
        /\ Alive /\ listenerPc = "serving"
        /\ Cardinality(Arrived("/write")) < limit
        /\ req[r].pc = "idle"
        /\ \A s \in Slots : s < r => req[s].pc # "idle"
        /\ req' = [req EXCEPT ![r] =
                     [IdleReq EXCEPT !.pc = "ingest", !.path = "/write",
                                     !.method = "POST", !.enc = e,
                                     !.hdr = Header(listenerConfig.APIKeyHeaderName, k),
                                     !.afterFlip = Flipped, !.after503 = Some503]]
        /\ UNCHANGED <<procVars, healthCheck, incomingQueue, enqLog, deqLog>>

\* a load balancer probe to /health arrives, one of at most limit
ServeHealth(limit) ==
    \E r \in Slots :
        /\ Cardinality(Arrived("/health")) < limit
        /\ logHTTPRequest(r, "/health", "GET", Header(ServiceAPIKey, <<>>), "")

\* lines 67-72: mux.Handle("/write", ...) registers the path alone, so the
\* handler chain runs for a request to /write whatever its method
ServeWriteAnyMethod(limit) ==
    \E r \in Slots, m \in AnyMethods, k \in Keys, e \in Encodings :
        /\ Cardinality(Arrived("/write")) < limit
        /\ logHTTPRequest(r, "/write", m, Header(ServiceAPIKey, k), e)

\* successive probes: a probe to /health arrives once every earlier probe
\* has returned
ServeHealthSuccessive(limit) ==
    /\ \A s \in Slots : req[s].pc \in {"idle", "done"}
    /\ ServeHealth(limit)

\* IngestValidate with the encoding check ahead of the key lookup
IngestValidate_EncodingFirst(r) ==
    /\ Alive /\ req[r].pc = "ingest"
    /\ req' =
         IF req[r].enc # "gzip"
         THEN [Done(r, StatusBadRequest) EXCEPT ![r].steps = {"encoding"}]
         ELSE IF APIKeyOf(r) \notin APIConfig
         THEN [Done(r, StatusUnauthorized) EXCEPT ![r].steps = {"auth", "encoding"}]
         ELSE [req EXCEPT ![r].pc = "read", ![r].steps = {"auth", "encoding"}]
    /\ UNCHANGED <<procVars, healthCheck, incomingQueue, enqLog, deqLog>>

\* IngestValidate rejecting only a Content-Encoding that is present and wrong
IngestValidate_AbsentOk(r) ==
    /\ Alive /\ req[r].pc = "ingest"
    /\ req' =
         IF APIKeyOf(r) \notin APIConfig
         THEN [Done(r, StatusUnauthorized) EXCEPT ![r].steps = {"auth"}]
         ELSE IF req[r].enc \notin {"gzip", ""}
         THEN [Done(r, StatusBadRequest) EXCEPT ![r].steps = {"auth", "encoding"}]
         ELSE [req EXCEPT ![r].pc = "read", ![r].steps = {"auth", "encoding"}]
    /\ UNCHANGED <<procVars, healthCheck, incomingQueue, enqLog, deqLog>>

\* lines 159-185: the key lookup in APIConfig, then the Content-Encoding check
IngestValidate(r) ==
    /\ Alive /\ req[r].pc = "ingest"
    /\ req' =
         IF APIKeyOf(r) \notin APIConfig
         THEN [Done(r, StatusUnauthorized) EXCEPT
                 ![r].steps = {"auth"},
                 ![r].log = Append(@, LogLine("Not a valid api key",
                                              EmptyID, APIKeyOf(r)))]
         ELSE IF req[r].enc # "gzip"
         THEN [Done(r, StatusBadRequest) EXCEPT
                 ![r].steps = {"auth", "encoding"},
                 ![r].log = Append(@, LogLine("Gzip encoding header is not set",
                                              EmptyID, <<>>))]
         ELSE [req EXCEPT ![r].pc = "read", ![r].steps = {"auth", "encoding"}]
    /\ UNCHANGED <<procVars, healthCheck, incomingQueue, enqLog, deqLog>>

\* IngestRead that logs the read error and goes on with what was read
IngestRead_NoReturn(r, readOk, buf) ==
    /\ Alive /\ req[r].pc = "read"
    /\ req' = [req EXCEPT ![r].pc = "enqueue",
                          ![r].read = IF readOk THEN "ok" ELSE "err",
                          ![r].body = buf, ![r].steps = @ \cup {"read"}]
    /\ UNCHANGED <<procVars, healthCheck, incomingQueue, enqLog, deqLog>>

\* lines 187-204: buf, err := ioutil.ReadAll(req.Body) takes the body off the
\* connection; on error the handler returns without writing a status
IngestRead(r, readOk, buf) ==
    /\ Alive /\ req[r].pc = "read"
    /\ req' = IF readOk
              THEN [req EXCEPT ![r].pc = "enqueue", ![r].read = "ok",
                               ![r].body = buf, ![r].steps = @ \cup {"read"}]
              ELSE [Done(r, NoStatus) EXCEPT
                      ![r].read = "err",
                      ![r].steps = @ \cup {"read"},
                      ![r].log = Append(@, LogLine("Error reading request body",
                                                   EmptyID, <<>>))]
    /\ UNCHANGED <<procVars, healthCheck, incomingQueue, enqLog, deqLog>>

\* line 206: the Payload the handler builds
PayloadOf(r) == Payload(MessageIDOf(req[r].ctx), req[r].body, APIKeyOf(r))

\* IngestEnqueue answering 204 on the default branch too
IngestEnqueue_Always204(r) ==
    /\ Alive /\ req[r].pc = "enqueue"
    /\ IF Len(incomingQueue) < queueCap
       THEN /\ incomingQueue' = Append(incomingQueue, PayloadOf(r))
            /\ enqLog' = Append(enqLog, PayloadOf(r))
       ELSE UNCHANGED <<incomingQueue, enqLog>>
    /\ req' = [Done(r, StatusNoContent) EXCEPT ![r].steps = @ \cup {"enqueue"}]
    /\ UNCHANGED <<procVars, healthCheck, deqLog>>

\* IngestEnqueue evicting the oldest Payload of a full queue
IngestEnqueue_DropOldest(r) ==
    /\ Alive /\ req[r].pc = "enqueue"
    /\ IF Len(incomingQueue) < queueCap
       THEN /\ incomingQueue' = Append(incomingQueue, PayloadOf(r))
            /\ enqLog' = Append(enqLog, PayloadOf(r))
            /\ req' = [Done(r, StatusNoContent) EXCEPT ![r].steps = @ \cup {"enqueue"}]
       ELSE /\ incomingQueue' = Append(Tail(incomingQueue), PayloadOf(r))
            /\ enqLog' = enqLog
            /\ req' = [Done(r, StatusOK) EXCEPT ![r].steps = @ \cup {"enqueue"}]
    /\ UNCHANGED <<procVars, healthCheck, deqLog>>

\* IngestEnqueue with a plain, blocking send
IngestEnqueue_Blocking(r) ==
    /\ Alive /\ req[r].pc = "enqueue"
    /\ Len(incomingQueue) < queueCap
    /\ incomingQueue' = Append(incomingQueue, PayloadOf(r))
    /\ enqLog' = Append(enqLog, PayloadOf(r))
    /\ req' = [Done(r, StatusNoContent) EXCEPT ![r].steps = @ \cup {"enqueue"}]
    /\ UNCHANGED <<procVars, healthCheck, deqLog>>

\* IngestEnqueue that looks at the latch and turns batches away once the
\* token is in the HealthCheck channel
IngestEnqueue_RefuseDraining(r) ==
    /\ Alive /\ req[r].pc = "enqueue"
    /\ IF Len(healthCheck) = 0 /\ Len(incomingQueue) < queueCap
       THEN /\ incomingQueue' = Append(incomingQueue, PayloadOf(r))
            /\ enqLog' = Append(enqLog, PayloadOf(r))
            /\ req' = [Done(r, StatusNoContent) EXCEPT ![r].steps = @ \cup {"enqueue"}]
       ELSE /\ req' = [Done(r, StatusOK) EXCEPT ![r].steps = @ \cup {"enqueue"}]
            /\ UNCHANGED <<incomingQueue, enqLog>>
    /\ UNCHANGED <<procVars, healthCheck, deqLog>>

\* lines 206-215: select { case IncomingQueue <- &p: 204; default: 200 }
IngestEnqueue(r) ==
    /\ Alive /\ req[r].pc = "enqueue"
    /\ IF Len(incomingQueue) < queueCap
       THEN /\ incomingQueue' = Append(incomingQueue, PayloadOf(r))
            /\ enqLog' = Append(enqLog, PayloadOf(r))
            /\ req' = [Done(r, StatusNoContent) EXCEPT ![r].steps = @ \cup {"enqueue"}]
       ELSE /\ req' = [Done(r, StatusOK) EXCEPT
                        ![r].steps = @ \cup {"enqueue"},
                        ![r].log = Append(@, LogLine("IncomingQueue Queue full",
                                            EmptyID, Mask(APIKeyOf(r), MaskLen)))]
            /\ UNCHANGED <<incomingQueue, enqLog>>
    /\ UNCHANGED <<procVars, healthCheck, deqLog>>

\* HealthSelect answering 503 on the default branch
HealthSelect_DefaultFails(r) ==
    /\ Alive /\ req[r].pc = "health"
    /\ IF Len(healthCheck) > 0
       THEN /\ healthCheck' = Tail(healthCheck)
            /\ req' = [req EXCEPT ![r].pc = "sendback"]
       ELSE /\ req' = Done(r, StatusServiceUnavailable)
            /\ UNCHANGED healthCheck
    /\ UNCHANGED <<procVars, incomingQueue, enqLog, deqLog>>

\* HealthSelect that sees the token and leaves it in the channel
HealthSelect_NoTake(r) ==
    /\ Alive /\ req[r].pc = "health"
    /\ req' = IF Len(healthCheck) > 0
              THEN [req EXCEPT ![r].pc = "sendback"]
              ELSE Done(r, StatusOK)
    /\ UNCHANGED <<procVars, healthCheck, incomingQueue, enqLog, deqLog>>

\* lines 221-231: select { case <-HealthCheck: ...; default: 200 }
HealthSelect(r) ==
    /\ Alive /\ req[r].pc = "health"
    /\ IF Len(healthCheck) > 0
       THEN /\ healthCheck' = Tail(healthCheck)
            /\ req' = [req EXCEPT ![r].pc = "sendback"]
       ELSE /\ req' = Done(r, StatusOK)
            /\ UNCHANGED healthCheck
    /\ UNCHANGED <<procVars, incomingQueue, enqLog, deqLog>>

\* HealthSendBack that answers 503 and keeps the token
HealthSendBack_NoReturn(r) ==
    /\ Alive /\ req[r].pc = "sendback"
    /\ req' = Done(r, StatusServiceUnavailable)
    /\ UNCHANGED <<procVars, healthCheck, incomingQueue, enqLog, deqLog>>

\* lines 225-227: HealthCheck <- true, then WriteHeader(503)
HealthSendBack(r) ==
    /\ Alive /\ req[r].pc = "sendback"
    /\ Len(healthCheck) < HealthCheckCap
    /\ healthCheck' = Append(healthCheck, TRUE)
    /\ req' = Done(r, StatusServiceUnavailable)
    /\ UNCHANGED <<procVars, incomingQueue, enqLog, deqLog>>

(***************************************************************************)
(* Specifications.                                                         *)
(***************************************************************************)
\* the listener configurations: Secure, and whether SSLCAServerCert is set
HTTPListenerConfigs ==
    [Secure : BOOLEAN, SSLCAServerCert : BOOLEAN, APIKeyHeaderName : HeaderNames]

\* the configurations of plaintext mode with the default name of the key
\* header; the mux and its handlers are the same in both modes
PlainConfigs ==
    {c \in HTTPListenerConfigs :
        ~c.Secure /\ ~c.SSLCAServerCert /\ c.APIKeyHeaderName = ServiceAPIKey}

\* the configurations of plaintext mode with any name for the key header
HeaderConfigs == {c \in HTTPListenerConfigs : ~c.Secure /\ ~c.SSLCAServerCert}

\* main, handleSignals, the signals that end the process or reach
\* handleSignals, the forwarding stage and the listener started with one of
\* configs
Lifecycle(configs) ==
    \/ MainStart
    \/ MainWaitReady
    \/ MainStartListener
    \/ HSNotify
    \/ HSPark
    \/ HSFlip
    \/ HSGrace
    \/ HSExit
    \/ SignalDefault
    \/ SignalDeliver
    \/ WriterReady
    \/ \E config \in configs : HTTPListener(config)
    \/ ListenAndServe

Admission(limit) ==
    \/ ServeWrite(limit)
    \/ \E r \in Slots : IngestValidate(r)
    \/ \E r \in Slots, buf \in Bodies : IngestRead(r, TRUE, buf)
    \/ \E r \in Slots : IngestRead(r, FALSE, "")
    \/ \E r \in Slots : IngestEnqueue(r)
    \/ WriterDequeue

Probing(limit) ==
    \/ ServeHealth(limit)
    \/ \E r \in Slots : HealthSelect(r)
    \/ \E r \in Slots : HealthSendBack(r)

\* the router with /write traffic only
NextIngest == Lifecycle(PlainConfigs) \/ Admission(NumWrite)

SpecIngest == Init /\ [][NextIngest]_vars

\* the router with /write traffic and every task that holds the queue: the
\* handlers, the forwarding stage and the metrics exporter
NextFifo == NextIngest \/ ExportMetrics

SpecFifo == Init /\ [][NextFifo]_vars

\* the router with /write traffic, ingest reached through the middleware or
\* called with a bare request
NextCorrelation ==
    Lifecycle(PlainConfigs) \/ Admission(NumWrite) \/ IngestNoContext(NumWrite)

SpecCorrelation == Init /\ [][NextCorrelation]_vars

\* the router with requests to /write of any method
NextMethods ==
    \/ Lifecycle(PlainConfigs)
    \/ ServeWriteAnyMethod(NumWrite)
    \/ \E r \in Slots : IngestValidate(r)
    \/ \E r \in Slots, buf \in Bodies : IngestRead(r, TRUE, buf)
    \/ \E r \in Slots : IngestRead(r, FALSE, "")
    \/ \E r \in Slots : IngestEnqueue(r)
    \/ WriterDequeue

SpecMethods == Init /\ [][NextMethods]_vars

\* the router started with any -api-key-header-name, and requests to /write
\* that carry a key in any of the headers
NextHeaders ==
    \/ Lifecycle(HeaderConfigs)
    \/ ServeWriteHeaders(NumWrite)
    \/ \E r \in Slots : IngestValidate(r)
    \/ \E r \in Slots, buf \in Bodies : IngestRead(r, TRUE, buf)
    \/ \E r \in Slots : IngestRead(r, FALSE, "")
    \/ \E r \in Slots : IngestEnqueue(r)
    \/ WriterDequeue

SpecHeaders == Init /\ [][NextHeaders]_vars

\* the router with /health traffic only
NextHealth == Lifecycle(PlainConfigs) \/ Probing(NumProbe)

SpecHealth == Init /\ [][NextHealth]_vars

\* the router with /health probes that do not overlap in time
NextSuccessive ==
    \/ Lifecycle(PlainConfigs)
    \/ ServeHealthSuccessive(NumProbe)
    \/ \E r \in Slots : HealthSelect(r)
    \/ \E r \in Slots : HealthSendBack(r)

SpecSuccessive == Init /\ [][NextSuccessive]_vars

\* the router with both kinds of traffic
Next == Lifecycle(PlainConfigs) \/ Admission(NumMixed) \/ Probing(NumMixed)

Spec == Init /\ [][Next]_vars

\* the router without traffic: startup in either mode and every signal,
\* also those that nobody receives
NextLifecycle == Lifecycle(HTTPListenerConfigs) \/ SignalDrop

SpecLifecycle == Init /\ [][NextLifecycle]_vars

\* what the Go scheduler guarantees: a goroutine that can take its next step
\* takes it.  Nothing is assumed of the signals, of the arrival of requests,
\* of the network a body is read from, or of the forwarding stage.
FairMain ==
    /\ WF_vars(MainStart) /\ WF_vars(MainWaitReady) /\ WF_vars(MainStartListener)
    /\ WF_vars(HSNotify) /\ WF_vars(HSPark) /\ WF_vars(HSFlip)
    /\ WF_vars(HSGrace) /\ WF_vars(HSExit)

FairIngest ==
    /\ SpecIngest
    /\ \A r \in Slots : WF_vars(IngestEnqueue(r))

\* SpecHealth with every /health handler goroutine scheduled
FairProbes ==
    /\ SpecHealth
    /\ \A r \in Slots : WF_vars(HealthSelect(r)) /\ WF_vars(HealthSendBack(r))

FairHealth ==
    /\ SpecHealth
    /\ FairMain

(***************************************************************************)
(* Properties.                                                             *)
(***************************************************************************)
Writes == {s \in Slots : req[s].path = "/write"}
Probes == {s \in Slots : req[s].path = "/health"}

\* the positions in enqLog of the Payloads that carry r's message id
EnqueuedOf(r) == {i \in DOMAIN enqLog : enqLog[i].MessageID = req[r].mid}

\* r is a /write request with a registered key, gzip and a body that was read
ValidRead(r) ==
    /\ req[r].path = "/write"
    /\ APIKeyOf(r) \in APIConfig
    /\ req[r].enc = "gzip"
    /\ req[r].read = "ok"

\* the latch tokens: in the HealthCheck channel or held by a probe between its
\* receive and its send-back
Tokens ==
    Len(healthCheck) + Cardinality({s \in Slots : req[s].pc = "sendback"})

\* r takes the enqueue step of ingest in this transition
EnqueueStep(r) == ValidRead(r) /\ req[r].pc = "enqueue" /\ req'[r].pc = "done"

\* C1 (as claimed): once some /health probe has responded 503, no probe that
\* starts after that response responds 200.
C1_LatchMonotonic ==
    \A r \in Probes : req[r].after503 => req[r].status # StatusOK

\* C2 (as claimed): every /health probe that begins after handleSignals has
\* sent on HealthCheck responds 503, also while another probe is running.
C2_ProbeAfterFlip ==
    \A r \in Probes :
        (req[r].afterFlip /\ req[r].pc = "done") =>
            req[r].status = StatusServiceUnavailable

\* C3: for a request with a registered key, gzip and a body that was read, the
\* enqueue step answers 204 exactly when it appends the request's Payload at
\* the tail of the queue, it answers 204 whenever the queue has room, and a
\* finished request has its Payload in the history of successful sends once
\* if it was answered 204 and not at all otherwise.
C3_AcceptedIffEnqueued ==
    /\ [][\A r \in Slots : EnqueueStep(r) =>
            /\ req'[r].status = StatusNoContent
                   <=> incomingQueue' = Append(incomingQueue, PayloadOf(r))
            /\ req'[r].status # StatusNoContent => incomingQueue' = incomingQueue
            /\ Len(incomingQueue) < queueCap => req'[r].status = StatusNoContent]_vars
    /\ [](\A r \in Slots : (ValidRead(r) /\ req[r].pc = "done") =>
            /\ req[r].status = StatusNoContent
                   <=> (Cardinality(EnqueuedOf(r)) = 1
                        /\ \A i \in EnqueuedOf(r) : enqLog[i] = PayloadOf(r))
            /\ req[r].status # StatusNoContent => EnqueuedOf(r) = {})

\* one valid request was answered 204 and a concurrent one was not
C3_Witness ==
    \E r, s \in Slots :
        /\ ValidRead(r) /\ req[r].status = StatusNoContent
        /\ ValidRead(s) /\ req[s].status = StatusOK
        /\ incomingQueue = <<PayloadOf(r)>>

\* C4: when the queue holds queueCap Payloads at the enqueue step of a valid
\* request, ingest answers 200 and the queue is left as it was.
C4_FullQueueUnchanged ==
    [][\A r \in Slots :
         (EnqueueStep(r) /\ Len(incomingQueue) = queueCap) =>
             /\ req'[r].status = StatusOK
             /\ incomingQueue' = incomingQueue]_vars

\* a valid request was answered 200 and the queue is still full
C4_Witness ==
    \E r \in Slots :
        /\ ValidRead(r) /\ req[r].status = StatusOK
        /\ Len(incomingQueue) = queueCap
        /\ \A i \in DOMAIN incomingQueue : incomingQueue[i].MessageID # req[r].mid

\* C5: a request whose key is not in the registry is answered 401, runs no
\* step of ingest after the key lookup and never has a Payload enqueued,
\* whatever its Content-Encoding and the fill level of the queue.
C5_UnknownKeyRejected ==
    /\ [](\A r \in Writes : APIKeyOf(r) \notin APIConfig =>
            /\ req[r].pc \in {"ingest", "done"}
            /\ req[r].pc = "done" =>
                   req[r].status = StatusUnauthorized /\ req[r].steps = {"auth"}
            /\ EnqueuedOf(r) = {})
    /\ [][\A r \in Slots :
            (req[r].path = "/write" /\ APIKeyOf(r) \notin APIConfig
               /\ req'[r] # req[r]) => incomingQueue' = incomingQueue]_vars

\* a request with an unknown key and gzip was answered 401 at a full queue
C5_Witness ==
    \E r \in Writes :
        /\ APIKeyOf(r) \notin APIConfig /\ req[r].enc = "gzip"
        /\ req[r].status = StatusUnauthorized
        /\ Len(incomingQueue) = queueCap

\* C6: a request with a registered key whose Content-Encoding is not exactly
\* gzip (absent or another value) is answered 400 and leaves the queue alone.
C6_NotGzipRejected ==
    /\ [](\A r \in Writes : (APIKeyOf(r) \in APIConfig /\ req[r].enc # "gzip") =>
            /\ req[r].pc \in {"ingest", "done"}
            /\ req[r].pc = "done" => req[r].status = StatusBadRequest
            /\ EnqueuedOf(r) = {})
    /\ [][\A r \in Slots :
            (req[r].path = "/write" /\ APIKeyOf(r) \in APIConfig
               /\ req[r].enc # "gzip" /\ req'[r] # req[r])
            => incomingQueue' = incomingQueue]_vars

\* requests without the header and with another value were answered 400
C6_Witness ==
    \E r, s \in Writes :
        /\ APIKeyOf(r) \in APIConfig /\ req[r].enc = ""
        /\ req[r].status = StatusBadRequest
        /\ APIKeyOf(s) \in APIConfig /\ req[s].enc = "identity"
        /\ req[s].status = StatusBadRequest

\* C7: the enqueue step never waits for the consumer: while the process runs,
\* a request whose body has been read gets its answer, 204 or 200, also in
\* behaviours where the forwarding stage never receives and the queue stays
\* full.
C7_EnqueueNeverBlocks ==
    \A r \in 1..NumWrite :
        (req[r].pc = "enqueue") ~>
            (req[r].status \in {StatusNoContent, StatusOK} \/ ~Alive)

\* a request was answered at a full queue from which nothing was ever received
C7_Witness ==
    \E r \in Slots :
        /\ ValidRead(r) /\ req[r].status = StatusOK
        /\ Len(incomingQueue) = queueCap
        /\ deqLog = <<>>

\* the Payloads whose sends have succeeded and which the consumer has not
\* received yet, oldest first
Pending == SubSeq(enqLog, Len(deqLog) + 1, Len(enqLog))

\* C8: with several handlers sending and the forwarding stage as the one
\* consumer, every receive of the consumer takes the oldest Payload whose
\* send has succeeded and that was not received yet, a successful send puts
\* its Payload behind all those queued, and no other step touches the queue:
\* what was received followed by what is queued is the history of successful
\* sends, nothing reordered, duplicated or lost.
C8_StrictFifo ==
    /\ [](enqLog = deqLog \o incomingQueue)
    /\ [][WriterDequeue =>
            /\ Pending # <<>>
            /\ deqLog' = Append(deqLog, Head(Pending))
            /\ enqLog' = enqLog]_vars
    /\ [][\A r \in Slots :
            (EnqueueStep(r) /\ req'[r].status = StatusNoContent) =>
                /\ incomingQueue' = Append(incomingQueue, PayloadOf(r))
                /\ deqLog' = deqLog]_vars
    /\ [][incomingQueue' # incomingQueue =>
            \/ WriterDequeue
            \/ \E r \in Slots : EnqueueStep(r)]_vars

\* two handlers were in flight together and the one that arrived second
\* sent first; the exporter saw both Payloads in the queue at once; the
\* consumer then received both, in the order of the sends
C8_Witness ==
    /\ Len(deqLog) = 2 /\ incomingQueue = <<>>
    /\ queueGauge = 2
    /\ deqLog[1].MessageID > deqLog[2].MessageID
    /\ deqLog = enqLog

\* C9: the listener is started, a request handled or a Payload enqueued only
\* after the forwarding stage has sent its notification and main has taken
\* it off the ready channel.
C9_ListenerAfterReady ==
    (listenerPc # "none" \/ bound # "none" \/ enqLog # <<>>
       \/ \E r \in Slots : req[r].pc # "idle")
    => (writerPc = "consuming" /\ ready = <<>>
        /\ mainPc \notin {"start", "waitReady"})

\* the listener serves and a Payload went through the queue
C9_Witness == listenerPc = "serving" /\ deqLog # <<>>
\* C10: once handleSignals has received a signal, its send on HealthCheck is
\* never blocked; the grace timer is started only after that send, os.Exit is
\* called only after the timer has fired, with the latch flipped; and the
\* process does end: by this exit when the listener is up, whatever the
\* handlers are doing, and otherwise by this exit or a fatal bind error.
C10_FlipGraceExit ==
    /\ []((Alive /\ mainPc = "flip") => Len(healthCheck) < HealthCheckCap)
    /\ [][(mainPc # "grace" /\ mainPc' = "grace") =>
            (mainPc = "flip" /\ Tokens = 0 /\ Tokens' = 1)]_vars
    /\ [][(mainPc # "shutdown" /\ mainPc' = "shutdown") =>
            (mainPc = "grace" /\ Tokens = 1)]_vars
    /\ [][(exit # "signal" /\ exit' = "signal") =>
            (mainPc = "shutdown" /\ Tokens = 1)]_vars
    /\ (mainPc = "flip" /\ listenerPc = "serving") ~> (exit = "signal")
    /\ (mainPc = "flip") ~> (exit \in {"signal", "fatal"})

\* the process exited on the signal while one probe held the token and
\* another had not yet run its select
C10_Witness ==
    /\ exit = "signal"
    /\ \E r, s \in Slots : req[r].pc = "sendback" /\ req[s].pc = "health"

\* C11: while handleSignals has not sent on HealthCheck, no probe holds a
\* token and every probe that has answered has answered 200; a probe that
\* answered 503 did so after the flip.
C11_ServingBeforeFlip ==
    /\ ~Flipped =>
          \A r \in Probes :
              /\ req[r].pc # "sendback"
              /\ req[r].pc = "done" => req[r].status = StatusOK
    /\ \A r \in Probes : req[r].status = StatusServiceUnavailable => Flipped

\* a probe was answered 200 while handleSignals waits for a signal
C11_Witness ==
    /\ mainPc = "parked" /\ Alive
    /\ \E r \in Probes : req[r].pc = "done" /\ req[r].status = StatusOK

\* the log lines that print an api key
KeyLines == {"Received", "Not a valid api key", "IncomingQueue Queue full"}

\* C12 (as claimed): every api key printed by the middleware or by ingest,
\* on the access line, the 401 line and the queue-full line, is the request's
\* key after config.Mask(key, 4).
C12_KeysMasked ==
    \A r \in Slots : \A i \in DOMAIN req[r].log :
        req[r].log[i].line \in KeyLines =>
            req[r].log[i].key = Mask(APIKeyOf(r), MaskLen)

\* the requests that came through logHTTPRequest
Logged == {s \in Slots : req[s].log # <<>> /\ req[s].log[1].line = "Received"}

\* the message id on r's access log line, EmptyID when r has no such line
AccessID(r) == IF r \in Logged THEN req[r].log[1].mid ELSE EmptyID

\* C13: a request passing through the middleware gets one freshly minted id:
\* it has one access line, the id on it is not empty and differs from the id
\* of every other request, also of requests in flight at the same time; the
\* Payload a request enqueues carries the id of its access line; a request
\* that reaches ingest without an id in its context is answered as any other
\* and its Payload carries the empty id.
C13_CorrelationID ==
    /\ [](\A r \in Logged :
            /\ AccessID(r) # EmptyID
            /\ Cardinality({i \in DOMAIN req[r].log :
                               req[r].log[i].line = "Received"}) = 1
            /\ \A s \in Logged : s # r => AccessID(s) # AccessID(r))
    /\ [](\A r \in Writes \ Logged :
            (ValidRead(r) /\ req[r].pc = "done") =>
                req[r].status \in {StatusNoContent, StatusOK})
    /\ [][\A r \in Slots :
            (EnqueueStep(r) /\ req'[r].status = StatusNoContent) =>
                /\ Len(enqLog') = Len(enqLog) + 1
                /\ enqLog'[Len(enqLog')].MessageID = AccessID(r)
                /\ incomingQueue'[Len(incomingQueue')].MessageID = AccessID(r)]_vars

\* two requests in flight together, one through the middleware and one
\* without a context id, both admitted: the queue log holds the empty id and
\* the id of the access line
C13_Witness ==
    \E r \in Logged, s \in Writes \ Logged :
        /\ req[r].status = StatusNoContent /\ req[s].status = StatusNoContent
        /\ \E i, j \in DOMAIN enqLog :
              /\ enqLog[i].MessageID = AccessID(r)
              /\ enqLog[j].MessageID = EmptyID
              /\ i # j

\* no /health probe is between its arrival and its return
NoProbeRunning == \A r \in Probes : req[r].pc = "done"

\* C14: with probes that do not overlap, every probe that starts after the
\* flip responds 503, a probe that has responded 503 has put the token back,
\* and between probes the HealthCheck channel holds its token again.
C14_SuccessiveProbes ==
    /\ \A r \in Probes :
          (req[r].afterFlip /\ req[r].pc = "done") =>
              req[r].status = StatusServiceUnavailable
    /\ (NoProbeRunning /\ Some503) => Len(healthCheck) = HealthCheckCap
    /\ (NoProbeRunning /\ Flipped) => Len(healthCheck) = HealthCheckCap

\* two probes one after the other, both after the flip, both answered 503,
\* and the token back in the channel
C14_Witness ==
    /\ NoProbeRunning /\ Len(healthCheck) = HealthCheckCap
    /\ \E r, s \in Probes :
          /\ r # s
          /\ req[r].afterFlip /\ req[r].status = StatusServiceUnavailable
          /\ req[s].afterFlip /\ req[s].status = StatusServiceUnavailable

\* C15 (as claimed): a signal that arrives while the listener is serving,
\* the time between the listener's start and the receive of handleSignals
\* included, is neither dropped at the unbuffered sigChan before the flip
\* nor ends the process without the flip.
C15_NoSignalLost ==
    [][(Alive /\ listenerPc = "serving" /\ ~Flipped) =>
          /\ exit' # "killed"
          /\ ~(~sigLost /\ sigLost')]_vars

\* r's body read fails in this transition
ReadFailStep(r) == req[r].pc = "read" /\ req'[r].read = "err"

\* C16: a request with a registered key and gzip whose body read fails gets
\* no status code from ingest and no Payload in the queue; the failing step
\* leaves the queue and every other request as they were.
C16_ReadFailure ==
    /\ [](\A r \in Writes :
            req[r].read = "err" =>
                /\ APIKeyOf(r) \in APIConfig /\ req[r].enc = "gzip"
                /\ req[r].pc = "done"
                /\ req[r].status = NoStatus
                /\ EnqueuedOf(r) = {})
    /\ [][\A r \in Slots :
            ReadFailStep(r) =>
                /\ incomingQueue' = incomingQueue
                /\ enqLog' = enqLog
                /\ \A s \in Slots \ {r} : req'[s] = req[s]]_vars

\* the body read of one request failed and an earlier request was admitted
C16_Witness ==
    \E r, s \in Writes :
        /\ r < s
        /\ "read" \in req[s].steps /\ req[s].read = "err"
        /\ req[r].status = StatusNoContent
        /\ Len(enqLog) = 1

\* C17 (as claimed): a request to /write whose method is not POST never
\* reaches the enqueue step, whatever its key and encoding, so every Payload
\* in the queue comes from a POST request.
C17_PostOnly ==
    /\ \A r \in Writes :
          req[r].method # "POST" =>
              /\ req[r].pc # "enqueue"
              /\ "enqueue" \notin req[r].steps
    /\ \A i \in DOMAIN enqLog :
          \E r \in Writes :
              req[r].method = "POST" /\ enqLog[i].MessageID = req[r].mid

\* C18 (as claimed): the one endpoint bound is the https one in TLS mode and
\* the http one in plaintext mode, and in TLS mode the listener does not go
\* on to bind or serve with a configured CA bundle that failed to load: the
\* process has ended instead.
C18_TLSBringUp ==
    /\ bound = "https" => listenerConfig.Secure
    /\ bound = "http" => ~listenerConfig.Secure
    /\ listenerPc = "bindTLS" => bound = "none"
    /\ (Alive /\ listenerConfig.Secure /\ listenerConfig.SSLCAServerCert) =>
          listenerConfig.ClientCAs = "loaded"

\* C19: the tokens in the HealthCheck channel plus those held by probes
\* between receive and send-back are 0 before the flip and 1 after it; the
\* channel never holds more than one; the flip and a send-back always find
\* room in the channel; every probe completes unless the process ends.
C19_TokenConservation ==
    /\ [](Tokens = IF Flipped THEN 1 ELSE 0)
    /\ [](Len(healthCheck) <= HealthCheckCap)
    /\ [](mainPc = "flip" => Len(healthCheck) < HealthCheckCap)
    /\ [](\A r \in Probes :
            req[r].pc = "sendback" => Len(healthCheck) < HealthCheckCap)
    /\ \A r \in 1..NumProbe :
          (req[r].pc \in {"health", "sendback"}) ~>
              (req[r].pc = "done" \/ ~Alive)

\* after the flip one probe holds the token while another has already
\* responded 503 and the process is still running
C19_Witness ==
    /\ Alive /\ Flipped /\ healthCheck = <<>>
    /\ \E r, s \in Probes :
          /\ req[r].pc = "sendback"
          /\ req[s].pc = "done" /\ req[s].status = StatusServiceUnavailable

\* request r arrives or takes a handler step in this transition
HandlerStep(r) == req'[r] # req[r]

\* C20: a step of a /health probe leaves the queue as it is, a step of a
\* /write request leaves the HealthCheck channel as it is, and the enqueue
\* step of a valid request that finds room in the queue answers 204 and
\* appends its one Payload, whether or not the latch has been flipped.
C20_AdmissionLatchFrame ==
    /\ [][\A r \in Slots :
            (HandlerStep(r) /\ req'[r].path = "/health") =>
                /\ incomingQueue' = incomingQueue
                /\ enqLog' = enqLog]_vars
    /\ [][\A r \in Slots :
            (HandlerStep(r) /\ req'[r].path = "/write") =>
                healthCheck' = healthCheck]_vars
    /\ [][\A r \in Slots :
            (EnqueueStep(r) /\ Len(incomingQueue) < queueCap) =>
                /\ req'[r].status = StatusNoContent
                /\ incomingQueue' = Append(incomingQueue, PayloadOf(r))
                /\ enqLog' = Append(enqLog, PayloadOf(r))]_vars

\* during the grace period, with the token in the channel, a valid request
\* that arrived after the flip was admitted and a probe responded 503
C20_Witness ==
    /\ Alive /\ mainPc = "shutdown" /\ Len(healthCheck) = HealthCheckCap
    /\ \E r \in Writes, s \in Probes :
          /\ req[r].afterFlip /\ req[r].status = StatusNoContent
          /\ EnqueuedOf(r) # {}
          /\ req[s].status = StatusServiceUnavailable

====
